---------------------------- MODULE Spec2Model ----------------------------
(***************************************************************************)
(* Model of the two canvas components of soul-rings:                       *)
(*   src/src/components/MandalaBase.tsx  (variables m...)                  *)
(*   src/src/components/Ornaments.tsx    (variables o...)                  *)
(* together with the part of the host they use: the window (viewport size, *)
(* devicePixelRatio, resize events), the animation-frame scheduler         *)
(* (requestAnimationFrame / cancelAnimationFrame, frame timestamps) and    *)
(* the 2D canvas (size attributes, transform, save/restore stack).         *)
(*                                                                         *)
(* JavaScript runs one handler at a time, so each handler (effect, cleanup,*)
(* frame callback, resize listener) is one atomic action.  A configuration *)
(* change is modelled as React's commit followed by the effect cleanup and *)
(* the effect, in one step.                                                *)
(*                                                                         *)
(* Numbers: sizes are whole CSS pixels, devicePixelRatio is a multiple of  *)
(* 1/DprDen, times are whole milliseconds, angles are in units of 1e-4     *)
(* radian, the pulse factor is in units of 1e-7.                           *)
(***************************************************************************)
EXTENDS Integers, Sequences, FiniteSets

VARIABLES
  \* ---- host ----
  innerWidth, innerHeight,   \* window.innerWidth / innerHeight
  dpr,                       \* window.devicePixelRatio * DprDen
  now,                       \* host clock, ms since the time origin
  nextHandle,                \* next id requestAnimationFrame returns
  \* ---- MandalaBase ----
  mPhase,                    \* "init" | "mounted" | "unmounted"
  mCanvasRef,                \* canvasRef.current is a canvas
  mHasCtx,                   \* canvas.getContext("2d") is not null
  mCanvas,                   \* [width, height] of the canvas
  mListener,                 \* resize is attached to window
  mPending,                  \* number of scheduled render callbacks
  mCleanup,                  \* the effect returned a teardown function
  mRings,                    \* rings drawn by the latest render
  mRendersMounted,           \* a render ran while mounted
  mResizedByEvent,           \* resize ran as the listener of a resize event
  mRanAfterUnmount,          \* a render ran after unmount
  \* ---- Ornament ----
  oPhase,                    \* "init" | "mounted" | "unmounted"
  oCanvasRef,                \* canvasRef.current is a canvas
  oHasCtx,                   \* canvas.getContext("2d") is not null
  props,                     \* [size, color, glow, rotation, pulse]
  oRendered,                 \* width/height/style React last wrote from JSX
  oCanvas,                   \* [width, height, styleW, styleH]
  oCtx,                      \* [k, ops, stack]: transform and save stack
  rafRef,                    \* rafRef.current (0 stands for null)
  tRef,                      \* tRef.current * 1000
  oQueue,                    \* scheduled frame callbacks: [id, env]
  oListeners,                \* attached onResize listeners, in order: [id, env]
  oCleanup,                  \* the registered teardown: << >> or <<[id, env]>>
  oResized,                  \* resizeCanvas has been called
  loopStart,                 \* host time at which the current loop started
  lastFrame, prevFrame,      \* what the latest two frames computed
  oTouchedAfterUnmount       \* the surface was written after unmount

hostVars == <<innerWidth, innerHeight, dpr, now, nextHandle>>
mVars == <<mPhase, mCanvasRef, mHasCtx, mCanvas, mListener, mPending,
           mCleanup, mRings, mRendersMounted, mResizedByEvent,
           mRanAfterUnmount>>
oVars == <<oPhase, oCanvasRef, oHasCtx, props, oRendered, oCanvas, oCtx,
           rafRef, tRef, oQueue, oListeners, oCleanup, oResized, loopStart,
           lastFrame, prevFrame, oTouchedAfterUnmount>>
vars == <<hostVars, mVars, oVars>>

----------------------------------------------------------------------------
\* Bounds of the model

\* devicePixelRatio is dpr / DprDen
DprDen == 4
\* the host clock stops at MaxNow ms
MaxNow == 2100
\* requestAnimationFrame hands out ids 1..MaxHandle
MaxHandle == 4

Viewports == {641, 800, 1024}
ViewportHeights == {481, 600, 768}
Dprs == {2, 4, 6}
StartTimes == {0, 250}
FrameSteps == {16}
\* 393 ms and 393 + 785 ms are where sin(now / 250) peaks and bottoms
PulseSteps == {393, 500, 785, 1571}
Sizes == {101, 160}
Colors == {"#ff02e6", "#00ffff"}
Glows == {10, 28}
Rotations == {0, 1}
DefaultProps ==
  [size |-> 160, color |-> "#ff02e6", glow |-> 28, rotation |-> 0,
   pulse |-> FALSE]
Differs(a, b) == IF a = b THEN 0 ELSE 1
\* the configurations: any size and pulse, and at most one of color, glow
\* and rotation away from its default
PropsSet ==
  {p \in [size : Sizes, color : Colors, glow : Glows,
          rotation : Rotations, pulse : BOOLEAN] :
     Differs(p.color, DefaultProps.color) + Differs(p.glow, DefaultProps.glow)
       + Differs(p.rotation, DefaultProps.rotation) <= 1}
\* configurations that differ in size and pulse only
PulseProps == {p \in PropsSet : /\ p.color = DefaultProps.color
                                /\ p.glow = DefaultProps.glow
                                /\ p.rotation = DefaultProps.rotation}
\* configurations of the page with both components
PageProps == {p \in PropsSet : /\ p.color = DefaultProps.color
                               /\ p.glow = DefaultProps.glow
                               /\ p.rotation = DefaultProps.rotation
                               /\ p.pulse = DefaultProps.pulse}

Ceil(n, d) == (n + d - 1) \div d
Abs(x) == IF x < 0 THEN -x ELSE x

----------------------------------------------------------------------------
\* Host

HostInit(ws, hs, ds, ts) ==
  /\ innerWidth \in ws
  /\ innerHeight \in hs
  /\ dpr \in ds
  /\ now \in ts
  /\ nextHandle = 1

----------------------------------------------------------------------------
\* MandalaBase

NoRings == << >>

MInit ==
  /\ mPhase = "init"
  /\ mCanvasRef = FALSE
  /\ mHasCtx = FALSE
  /\ mCanvas = [width |-> 300, height |-> 150]   \* a canvas without attributes
  /\ mListener = FALSE
  /\ mPending = 0
  /\ mCleanup = FALSE
  /\ mRings = NoRings
  /\ mRendersMounted = FALSE
  /\ mResizedByEvent = FALSE
  /\ mRanAfterUnmount = FALSE

\* if (!canvas) return; ... if (!ctx) return;
\* (variant: the context guard is missing)
MandalaProceeds_CanvasOnly(canvasRef, hasCtx) == canvasRef

MandalaProceeds(canvasRef, hasCtx) == canvasRef /\ hasCtx

\* resize: canvas.width = window.innerWidth; canvas.height = window.innerHeight
\* (variant: the height is taken from the width)
MandalaResize_WidthTwice(canvas, w, h) == [width |-> w, height |-> w]

MandalaResize(canvas, w, h) == [width |-> w, height |-> h]

\* center: x = canvas.width / 2, y = canvas.height / 2, as fractions <<n, d>>
MandalaCenter(canvas) ==
  [x |-> <<canvas.width, 2>>, y |-> <<canvas.height, 2>>]

\* drawGlowingRing(x, y, radius, thickness, color): annulus between
\* radius - thickness/2 and radius + thickness/2 (thickness is even here)
DrawGlowingRing(c, radius, thickness, color) ==
  [kind |-> "glow", x |-> c.x, y |-> c.y, radius |-> radius,
   inner |-> radius - thickness \div 2, outer |-> radius + thickness \div 2,
   color |-> color, lineWidth |-> 0, dots |-> 0]

\* drawCircle(x, y, radius, {color, lineWidth = 2, dotted = false, dotCount = 120})
DrawCircle(c, radius, color, lineWidth, dotted, dotCount) ==
  [kind |-> IF dotted THEN "dotted" ELSE "solid",
   x |-> c.x, y |-> c.y, radius |-> radius,
   inner |-> radius, outer |-> radius,
   color |-> color, lineWidth |-> lineWidth,
   dots |-> IF dotted THEN dotCount ELSE 0]

\* render: what one call draws (after clearing the canvas)
MandalaRender(canvas) ==
  LET c == MandalaCenter(canvas) IN
  << DrawGlowingRing(c, 170, 60, "#ff00ff"),
     DrawCircle(c, 200, "#ff66ff", 4, FALSE, 120),
     DrawCircle(c, 230, "#ff00ff", 2, TRUE, 160) >>

\* the effect of useEffect(..., []) at mount
MMount(c, x) ==
  /\ mPhase = "init"
  /\ mPhase' = "mounted"
  /\ mCanvasRef' = c
  /\ mHasCtx' = x
  /\ IF MandalaProceeds(c, x)
     THEN LET cv == MandalaResize(mCanvas, innerWidth, innerHeight) IN
          /\ mCanvas' = cv                   \* resize()
          /\ mListener' = TRUE               \* addEventListener("resize", resize)
          /\ mRings' = MandalaRender(cv)     \* render()
          /\ mRendersMounted' = TRUE
          /\ mPending' = mPending + 1        \* requestAnimationFrame(render)
          /\ mCleanup' = TRUE                \* return () => removeEventListener
     ELSE UNCHANGED <<mCanvas, mListener, mRings, mRendersMounted, mPending,
                      mCleanup>>
  /\ UNCHANGED <<mResizedByEvent, mRanAfterUnmount, hostVars, oVars>>

\* the host runs a scheduled render callback; render schedules itself again
MRenderFrame ==
  /\ mPending > 0
  /\ mRings' = MandalaRender(mCanvas)
  /\ mPending' = (mPending - 1) + 1
  /\ mRendersMounted' = (mRendersMounted \/ mPhase = "mounted")
  /\ mRanAfterUnmount' = (mRanAfterUnmount \/ mPhase = "unmounted")
  /\ UNCHANGED <<mPhase, mCanvasRef, mHasCtx, mCanvas, mListener, mCleanup,
                 mResizedByEvent, hostVars, oVars>>

\* unmount runs the teardown the effect returned, if any
MUnmount ==
  /\ mPhase = "mounted"
  /\ mPhase' = "unmounted"
  /\ mListener' = IF mCleanup THEN FALSE ELSE mListener
  /\ UNCHANGED <<mCanvasRef, mHasCtx, mCanvas, mPending, mCleanup, mRings,
                 mRendersMounted, mResizedByEvent, mRanAfterUnmount,
                 hostVars, oVars>>

----------------------------------------------------------------------------
\* The 2D context of the Ornament canvas: the transform is the uniform scale
\* k / DprDen followed by the operations in ops; stack is the save stack.

IdentityCtx == [k |-> DprDen, ops |-> << >>, stack |-> << >>]

Op(name, a, b) == [op |-> name, a |-> a, b |-> b]

ApplyOp(ctx, o) ==
  CASE o.op = "save" ->
         [ctx EXCEPT !.stack = Append(@, [k |-> ctx.k, ops |-> ctx.ops])]
    [] o.op = "restore" ->
         IF ctx.stack = << >> THEN ctx
         ELSE LET top == ctx.stack[Len(ctx.stack)] IN
              [k |-> top.k, ops |-> top.ops,
               stack |-> SubSeq(ctx.stack, 1, Len(ctx.stack) - 1)]
    [] o.op \in {"translate", "rotate", "scale"} ->
         [ctx EXCEPT !.ops = Append(@, o)]
    [] OTHER -> ctx

RECURSIVE ApplyOps(_, _)
ApplyOps(ctx, os) ==
  IF os = << >> THEN ctx ELSE ApplyOps(ApplyOp(ctx, Head(os)), Tail(os))

----------------------------------------------------------------------------
\* Ornament: drawing helpers.  Line widths and blurs are in 1/100 px.

\* neonStroke(ctx, path, {w, blur}): save, wide blurred stroke, crisp core
\* stroke, restore
\* (variant: the closing ctx.restore() is missing)
NeonStroke_NoRestore(path, w, blur) ==
  << Op("save", 0, 0) >> \o path \o << Op("stroke", (w * 26) \div 10, blur) >>
    \o path \o << Op("stroke", w, 0) >>

NeonStroke(path, w, blur) ==
  << Op("save", 0, 0) >> \o path \o << Op("stroke", (w * 26) \div 10, blur) >>
    \o path \o << Op("stroke", w, 0) >> \o << Op("restore", 0, 0) >>

\* drawOrnamentAt(ctx, scale): scale is scaleN / (160 * 10^7)
DrawOrnamentAt(env, scaleN) ==
  << Op("save", 0, 0), Op("scale", scaleN, scaleN) >>
    \o NeonStroke(<< Op("stroke", 0, 0) >>, 220, env.glow * 100)  \* crown
    \o NeonStroke(<< >>, 400, env.glow * 102)                     \* oval frame
    \o NeonStroke(<< >>, 320, env.glow * 90)                      \* rod
    \o NeonStroke(<< >>, 200, env.glow * 100)                     \* circlet
    \o NeonStroke(<< >>, 200, env.glow * 100)                     \* pendant
    \o << Op("fill", 0, 0), Op("fill", 0, 0), Op("restore", 0, 0) >>

\* Math.sin on [0, pi/2], argument and result in units of 1e-4
\* (Taylor polynomial of degree 7; within 3e-4 of the sine)
HalfPi4 == 15708

SinQ(y) ==
  LET y2 == (y * y) \div 10000
      t3 == (y * y2) \div 60000
      t5 == (t3 * y2) \div 200000
      t7 == (t5 * y2) \div 420000
  IN  y - t3 + t5 - t7

\* Math.sin(x) for x >= 0, in units of 1e-4
Sin4(x) ==
  LET r == x % (4 * HalfPi4) IN
  IF r <= HalfPi4 THEN SinQ(r)
  ELSE IF r <= 2 * HalfPi4 THEN SinQ(2 * HalfPi4 - r)
  ELSE IF r <= 3 * HalfPi4 THEN -SinQ(r - 2 * HalfPi4)
  ELSE -SinQ(4 * HalfPi4 - r)

\* the time the pulse is computed from: the timestamp the host passes to
\* frame(now)
\* (variant: the time since the loop started)
PulseTime_SinceLoopStart(t, start) == t - start

PulseTime(t, start) == t

\* pulse ? 0.965 + 0.035 * Math.sin(now / 250) : 1.0, in units of 1e-7
\* (variant: the sine is centered at 1.0)
PulseFactor_Overshoot(pulse, t) ==
  IF pulse THEN 10000000 + 35 * Sin4(t * 40) ELSE 10000000

PulseFactor(pulse, t) ==
  IF pulse THEN 9650000 + 35 * Sin4(t * 40) ELSE 10000000

\* scale = (size / baseDesignHeight) * pulseFactor with baseDesignHeight =
\* 160, as the numerator over 160 * 10^7
Scale(size, pf) == size * pf

\* the context calls of one frame after clearRect
FrameOps(env, scaleN) ==
  << Op("save", 0, 0),
     Op("translate", env.size, env.size - 12),   \* (size/2, size/2 - 6), in 1/2 px
     Op("rotate", env.rotation, 0),
     Op("fill", 0, 0) >>                         \* halo
    \o DrawOrnamentAt(env, scaleN)
    \o << Op("restore", 0, 0) >>

\* window.devicePixelRatio || 1
DprOr1(d) == IF d = 0 THEN DprDen ELSE d

\* resizeCanvas(canvas): assigning width / height resets the context
ResizeCanvas(env, d, hasCtx) ==
  LET r == DprOr1(d)
      w == Ceil(env.size * r, DprDen)
  IN  [canvas |-> [width |-> w, height |-> w,
                   styleW |-> env.size, styleH |-> env.size],
       ctx |-> IF hasCtx THEN [IdentityCtx EXCEPT !.k = r] ELSE IdentityCtx]

\* what a frame computed: the timestamp, the closure's size and pulse, the
\* pulse factor and scale, the loop's start time, and the extent clearRect
\* cleared in device pixels * DprDen next to the canvas size
NoFrame ==
  [ran |-> FALSE, now |-> 0, size |-> 0, pulse |-> FALSE, pf |-> 0,
   scaleN |-> 0, start |-> 0, clearW |-> 0, clearH |-> 0, clearPlain |-> FALSE,
   canvasW |-> 0, canvasH |-> 0]


----------------------------------------------------------------------------
\* Ornament: the effect, its teardown and the frame callback, as functions of
\* the mutable state
\*   st = [canvas, ctx, rafRef, tRef, queue, listeners, cleanup, nextHandle,
\*         resized, loopStart, last, prev, touched]

OState ==
  [canvas |-> oCanvas, ctx |-> oCtx, rafRef |-> rafRef, tRef |-> tRef,
   queue |-> oQueue, listeners |-> oListeners, cleanup |-> oCleanup,
   nextHandle |-> nextHandle, resized |-> oResized, loopStart |-> loopStart,
   last |-> lastFrame, prev |-> prevFrame, touched |-> oTouchedAfterUnmount]

OStore(st) ==
  /\ oCanvas' = st.canvas
  /\ oCtx' = st.ctx
  /\ rafRef' = st.rafRef
  /\ tRef' = st.tRef
  /\ oQueue' = st.queue
  /\ oListeners' = st.listeners
  /\ oCleanup' = st.cleanup
  /\ nextHandle' = st.nextHandle
  /\ oResized' = st.resized
  /\ loopStart' = st.loopStart
  /\ lastFrame' = st.last
  /\ prevFrame' = st.prev
  /\ oTouchedAfterUnmount' = st.touched

\* if (!canvas) return; ... if (!ctx) return;
OrnamentProceeds(canvasRef, hasCtx) == canvasRef /\ hasCtx

\* the dependency list [size, color, glow, rotation, pulse]
\* (variant: size is missing from the list)
DepsChanged_NoSize(old, new) ==
  \/ old.color # new.color
  \/ old.glow # new.glow
  \/ old.rotation # new.rotation
  \/ old.pulse # new.pulse

DepsChanged(old, new) ==
  \/ old.size # new.size
  \/ old.color # new.color
  \/ old.glow # new.glow
  \/ old.rotation # new.rotation
  \/ old.pulse # new.pulse

\* requestAnimationFrame(frame) by the effect or the frame with closure env
RequestFrame(st, env) ==
  [st EXCEPT !.queue = @ \cup {[id |-> st.nextHandle, env |-> env]},
             !.nextHandle = @ + 1]

\* what frame stores in rafRef.current: the id of the frame it requested
\* (variant: frame drops the id)
FrameRafRef_NotStored(old, handle) == old

FrameRafRef(old, handle) == handle

\* if (rafRef.current) cancelAnimationFrame(rafRef.current)
\* (variant: the teardown does not cancel)
CancelPending_NoCancel(queue, raf) == queue

CancelPending(queue, raf) ==
  IF raf # 0 THEN {c \in queue : c.id # raf} ELSE queue

RemoveListener(ls, id) == SelectSeq(ls, LAMBDA l : l.id # id)

\* the teardown function returned by the effect
RunCleanup(st) ==
  IF st.cleanup = << >> THEN st
  ELSE [st EXCEPT !.queue = CancelPending(st.queue, st.rafRef),
                  !.listeners = RemoveListener(@, st.cleanup[1].id),
                  !.cleanup = << >>]

\* the body of useEffect with the props env, run at host time t
RunEffect(st, env, t) ==
  IF ~OrnamentProceeds(oCanvasRef', oHasCtx')
  THEN [st EXCEPT !.cleanup = << >>]
  ELSE LET r == ResizeCanvas(env, dpr, oHasCtx')
           h == st.nextHandle
           s1 == [st EXCEPT !.canvas = r.canvas, !.ctx = r.ctx,
                            !.resized = TRUE]
           s2 == RequestFrame(s1, env)
       IN  [s2 EXCEPT !.rafRef = h,
                      !.listeners = Append(@, [id |-> h, env |-> env]),
                      !.cleanup = << [id |-> h, env |-> env] >>,
                      !.loopStart = t]

\* frame(now) with closure env
RunFrame(st, env, t) ==
  LET pf == PulseFactor(env.pulse, PulseTime(t, st.loopStart))
      scaleN == Scale(env.size, pf)
      rec == [ran |-> TRUE, now |-> t, size |-> env.size, pulse |-> env.pulse,
              pf |-> pf, scaleN |-> scaleN, start |-> st.loopStart,
              clearW |-> st.canvas.width * st.ctx.k,
              clearH |-> st.canvas.height * st.ctx.k,
              clearPlain |-> (st.ctx.ops = << >>),
              canvasW |-> st.canvas.width, canvasH |-> st.canvas.height]
      h == st.nextHandle
      s1 == [st EXCEPT !.tRef = t,
                       !.ctx = ApplyOps(@, FrameOps(env, scaleN)),
                       !.prev = st.last, !.last = rec,
                       !.touched = (@ \/ oPhase = "unmounted")]
      s2 == RequestFrame(s1, env)
  IN  [s2 EXCEPT !.rafRef = FrameRafRef(st.rafRef, h)]

\* the host runs the callbacks scheduled for this frame, in the order they
\* were requested
RECURSIVE RunCallbacks(_, _, _)
RunCallbacks(st, cbs, t) ==
  IF cbs = {} THEN st
  ELSE LET cb == CHOOSE c \in cbs : \A d \in cbs : c.id <= d.id IN
       RunCallbacks(RunFrame(st, cb.env, t), cbs \ {cb}, t)

\* the window's resize event calls each attached onResize in order
RECURSIVE RunListeners(_, _, _)
RunListeners(st, ls, d) ==
  IF ls = << >> THEN st
  ELSE LET r == ResizeCanvas(Head(ls).env, d, oHasCtx) IN
       RunListeners([st EXCEPT !.canvas = r.canvas, !.ctx = r.ctx,
                               !.resized = TRUE,
                               !.touched = (@ \/ oPhase = "unmounted")],
                    Tail(ls), d)

\* the width / height / style React writes from the JSX of a render
Rendered(p, d) ==
  [width |-> Ceil(p.size * DprOr1(d), DprDen),
   height |-> Ceil(p.size * DprOr1(d), DprDen),
   style |-> p.size]

\* React's commit: it writes the attributes whose value changed; writing
\* width or height resets the context
Commit(st, old, new) ==
  IF ~oCanvasRef THEN st
  ELSE LET sized == (old.width # new.width \/ old.height # new.height) IN
       [st EXCEPT !.canvas = [width |-> new.width, height |-> new.height,
                              styleW |-> new.style, styleH |-> new.style],
                  !.ctx = IF sized THEN IdentityCtx ELSE @]

OInit ==
  /\ oPhase = "init"
  /\ oCanvasRef = FALSE
  /\ oHasCtx = FALSE
  /\ props = CHOOSE p \in PropsSet : TRUE
  /\ oRendered = [width |-> 0, height |-> 0, style |-> 0]
  /\ oCanvas = [width |-> 0, height |-> 0, styleW |-> 0, styleH |-> 0]
  /\ oCtx = IdentityCtx
  /\ rafRef = 0
  /\ tRef = 0
  /\ oQueue = {}
  /\ oListeners = << >>
  /\ oCleanup = << >>
  /\ oResized = FALSE
  /\ loopStart = 0
  /\ lastFrame = NoFrame
  /\ prevFrame = NoFrame
  /\ oTouchedAfterUnmount = FALSE

\* mount with props p: React creates the canvas from the JSX, then runs the
\* effect
OMount(p, c, x) ==
  /\ oPhase = "init"
  /\ nextHandle <= MaxHandle
  /\ oPhase' = "mounted"
  /\ oCanvasRef' = c
  /\ oHasCtx' = x
  /\ props' = p
  /\ oRendered' = Rendered(p, dpr)
  /\ LET rd == Rendered(p, dpr)
         s0 == [OState EXCEPT
                  !.canvas = IF c THEN [width |-> rd.width, height |-> rd.height,
                                        styleW |-> rd.style, styleH |-> rd.style]
                             ELSE @]
     IN  OStore(RunEffect(s0, p, now))
  /\ UNCHANGED <<innerWidth, innerHeight, dpr, now, mVars>>

\* the caller changes the configuration to p: re-render, commit, then (the
\* dependencies differ) the old effect's teardown and the effect again
OSetProps(p) ==
  /\ oPhase = "mounted"
  /\ p # props
  /\ nextHandle <= MaxHandle
  /\ props' = p
  /\ oRendered' = Rendered(p, dpr)
  /\ UNCHANGED <<oPhase, oCanvasRef, oHasCtx>>
  /\ LET s0 == Commit(OState, oRendered, Rendered(p, dpr)) IN
     IF DepsChanged(props, p)
     THEN OStore(RunEffect(RunCleanup(s0), p, now))
     ELSE OStore(s0)
  /\ UNCHANGED <<innerWidth, innerHeight, dpr, now, mVars>>

\* the host's next animation frame, dt ms later: it runs the scheduled
\* callbacks with the new timestamp
OFrameTick(dt) ==
  /\ oQueue # {}
  /\ now + dt <= MaxNow
  /\ nextHandle + Cardinality(oQueue) - 1 <= MaxHandle
  /\ now' = now + dt
  /\ OStore(RunCallbacks([OState EXCEPT !.queue = {}], oQueue, now + dt))
  /\ UNCHANGED <<oPhase, oCanvasRef, oHasCtx, props, oRendered,
                 innerWidth, innerHeight, dpr, mVars>>

\* unmount runs the teardown of the last effect, if it returned one
OUnmount ==
  /\ oPhase = "mounted"
  /\ oPhase' = "unmounted"
  /\ OStore(RunCleanup(OState))
  /\ UNCHANGED <<oCanvasRef, oHasCtx, props, oRendered,
                 innerWidth, innerHeight, dpr, now, mVars>>

----------------------------------------------------------------------------
\* Host events that reach both components

\* the viewport becomes w x h at device pixel ratio d / DprDen and the window
\* fires "resize": MandalaBase's resize and Ornament's onResize run if
\* attached; assigning canvas.width / canvas.height clears the bitmap
WindowResize(w, h, d) ==
  /\ innerWidth' = w
  /\ innerHeight' = h
  /\ dpr' = d
  /\ IF mListener
     THEN /\ mCanvas' = MandalaResize(mCanvas, w, h)
          /\ mRings' = NoRings
          /\ mResizedByEvent' = TRUE
     ELSE UNCHANGED <<mCanvas, mRings, mResizedByEvent>>
  /\ OStore(RunListeners(OState, oListeners, d))
  /\ UNCHANGED <<now, mPhase, mCanvasRef, mHasCtx, mListener, mPending,
                 mCleanup, mRendersMounted, mRanAfterUnmount,
                 oPhase, oCanvasRef, oHasCtx, props, oRendered>>

----------------------------------------------------------------------------
\* Specifications

\* MandalaBase alone on the page, the viewport changing
InitMandala ==
  HostInit(Viewports, ViewportHeights, {DprDen}, {0}) /\ MInit /\ OInit

MNext ==
  \/ \E c \in BOOLEAN, x \in BOOLEAN : MMount(c, x)
  \/ MRenderFrame
  \/ \E w \in Viewports, h \in ViewportHeights : WindowResize(w, h, dpr)
  \/ MUnmount

SpecMandala == InitMandala /\ [][MNext]_vars

\* Ornament alone on the page, any configuration, the pixel ratio changing
InitOrnament == HostInit({800}, {600}, Dprs, {0}) /\ MInit /\ OInit

ONext ==
  \/ \E p \in PropsSet, c \in BOOLEAN, x \in BOOLEAN : OMount(p, c, x)
  \/ \E p \in PropsSet : OSetProps(p)
  \/ \E dt \in FrameSteps : OFrameTick(dt)
  \/ \E d \in Dprs : WindowResize(innerWidth, innerHeight, d)
  \/ OUnmount

SpecOrnament == InitOrnament /\ [][ONext]_vars

\* Ornament alone on the page, size and pulse changing, frames far apart
InitPulse == HostInit({800}, {600}, {DprDen}, StartTimes) /\ MInit /\ OInit

PNext ==
  \/ \E p \in PulseProps : OMount(p, TRUE, TRUE)
  \/ \E p \in PulseProps : OSetProps(p)
  \/ \E dt \in PulseSteps : OFrameTick(dt)
  \/ WindowResize(innerWidth, innerHeight, dpr)
  \/ OUnmount

SpecPulse == InitPulse /\ [][PNext]_vars

\* both components on the page
InitPage == HostInit({800}, {600}, {DprDen}, {0}) /\ MInit /\ OInit

Next ==
  \/ \E c \in BOOLEAN, x \in BOOLEAN : MMount(c, x)
  \/ MRenderFrame
  \/ MUnmount
  \/ \E p \in PageProps, c \in BOOLEAN, x \in BOOLEAN : OMount(p, c, x)
  \/ \E p \in PageProps : OSetProps(p)
  \/ \E dt \in FrameSteps : OFrameTick(dt)
  \/ OUnmount
  \/ \E w \in {641, 800}, d \in {DprDen, 6} : WindowResize(w, innerHeight, d)

Spec == InitPage /\ [][Next]_vars

----------------------------------------------------------------------------
\* Properties

FreshCanvas == [width |-> 300, height |-> 150]

\* C1: Ornament: once unmounted, no frame callback of the instance is
\* scheduled, no resize listener of it is attached, and the surface has not
\* been written since the unmount, whatever frame ticks and resize events
\* followed.
C1_OrnamentQuietAfterUnmount ==
  oPhase = "unmounted" =>
    /\ oQueue = {}
    /\ oListeners = << >>
    /\ ~oTouchedAfterUnmount

\* an unmounted Ornament that had drawn frames, and a resize event with
\* another pixel ratio after the unmount that left its canvas alone
C1_Witness ==
  /\ oPhase = "unmounted"
  /\ oCanvasRef /\ oHasCtx
  /\ lastFrame.ran
  /\ oCanvas.width # Ceil(props.size * dpr, DprDen)

\* C2: MandalaBase: once unmounted, no render callback has run since and no
\* resize listener is attached.
C2_MandalaQuietAfterUnmount ==
  mPhase = "unmounted" => (~mRanAfterUnmount /\ ~mListener)

\* C3: Ornament: at most one frame callback is scheduled at any time; while
\* mounted it belongs to the current configuration's loop and rafRef holds
\* its id.
C3_OneFrameChain ==
  /\ Cardinality(oQueue) <= 1
  /\ oPhase = "mounted" =>
       \A c \in oQueue : c.env = props /\ c.id = rafRef

\* a running loop that was restarted with another size after a frame of the
\* old loop was drawn
C3_Witness ==
  /\ oPhase = "mounted"
  /\ oQueue # {}
  /\ lastFrame.ran
  /\ lastFrame.size # props.size

\* C4: Ornament: while mounted with a canvas and a context, the canvas is
\* styled size x size CSS px and its backing store is ceil(size * dpr) in
\* each axis, for the current size and device pixel ratio.
C4_SurfaceSize ==
  (oPhase = "mounted" /\ oCanvasRef /\ oHasCtx) =>
    /\ oCanvas.styleW = props.size
    /\ oCanvas.styleH = props.size
    /\ oCanvas.width * DprDen >= props.size * dpr
    /\ (oCanvas.width - 1) * DprDen < props.size * dpr
    /\ oCanvas.height = oCanvas.width

\* the size was changed after a frame, then a resize event arrived with a
\* pixel ratio that makes size * dpr fractional
C4_Witness ==
  /\ oPhase = "mounted" /\ oCanvasRef /\ oHasCtx
  /\ lastFrame.ran
  /\ lastFrame.size # props.size
  /\ oRendered.width # oCanvas.width
  /\ (props.size * dpr) % DprDen # 0

\* C5: MandalaBase: the rings a render drew while mounted are the three
\* rings of radius 170, 200 and 230, each centered at half the current
\* viewport width and height.
C5_RingsCentered ==
  (mPhase = "mounted" /\ mRings # NoRings) =>
    /\ Len(mRings) = 3
    /\ mRings[1].radius = 170 /\ mRings[2].radius = 200
    /\ mRings[3].radius = 230
    /\ \A i \in 1..3 : /\ mRings[i].x = <<innerWidth, 2>>
                       /\ mRings[i].y = <<innerHeight, 2>>

\* rings drawn in an 800 x 600 viewport reached by a resize event
C5_Witness ==
  /\ mPhase = "mounted"
  /\ mRings # NoRings
  /\ mResizedByEvent
  /\ innerWidth = 800 /\ innerHeight = 600

SamePulsingLoop ==
  /\ lastFrame.ran /\ prevFrame.ran
  /\ lastFrame.pulse /\ prevFrame.pulse
  /\ lastFrame.size = prevFrame.size

ScaleInRange ==
  (lastFrame.ran /\ lastFrame.pulse) =>
    /\ lastFrame.scaleN >= 9300000 * lastFrame.size
    /\ lastFrame.scaleN <= 10000000 * lastFrame.size

\* C6 (as claimed): with pulse, the scale stays within
\* [0.93, 1.0] * size/160 and repeats with period 500 ms.
C6_Period500 ==
  /\ ScaleInRange
  /\ (SamePulsingLoop /\ lastFrame.now - prevFrame.now = 500) =>
       Abs(lastFrame.pf - prevFrame.pf) <= 5000

\* C6 (amended): with pulse, the scale stays within [0.93, 1.0] * size/160
\* and repeats with period 2*pi*250 ms: two frames 1571 ms apart have pulse
\* factors within 0.0005 of each other.
C6_Period1571 ==
  /\ ScaleInRange
  /\ (SamePulsingLoop /\ lastFrame.now - prevFrame.now = 1571) =>
       Abs(lastFrame.pf - prevFrame.pf) <= 5000

\* two pulsing frames of the same size 1571 ms apart, away from the mean
C6_Witness ==
  /\ SamePulsingLoop
  /\ lastFrame.now - prevFrame.now = 1571
  /\ Abs(lastFrame.pf - 9650000) > 100000

\* C7: both components: mounted without a canvas or without a 2D context,
\* the component has resized nothing, attached no listener, scheduled no
\* frame, drawn nothing and registered no teardown.
C7_NoWorkWithoutSurface ==
  /\ (mPhase # "init" /\ ~(mCanvasRef /\ mHasCtx)) =>
       /\ mCanvas = FreshCanvas
       /\ ~mListener
       /\ mPending = 0
       /\ ~mCleanup
       /\ mRings = NoRings
       /\ ~mRendersMounted
  /\ (oPhase # "init" /\ ~(oCanvasRef /\ oHasCtx)) =>
       /\ ~oResized
       /\ oListeners = << >>
       /\ oQueue = {}
       /\ rafRef = 0
       /\ oCleanup = << >>
       /\ ~lastFrame.ran

\* MandalaBase mounted with a canvas but no context and Ornament mounted
\* without a canvas, after a resize event to a 641 px wide viewport
C7_Witness ==
  /\ mPhase = "mounted" /\ mCanvasRef /\ ~mHasCtx
  /\ oPhase = "mounted" /\ ~oCanvasRef
  /\ innerWidth = 641
  /\ props.size = 101

\* C8 (as claimed): the pulse factor of a frame is
\* 0.965 + 0.035 * sin(t / 250) with t the time since the loop started.
C8_PhaseSinceLoopStart ==
  (lastFrame.ran /\ lastFrame.pulse) =>
    lastFrame.pf = 9650000 + 35 * Sin4((lastFrame.now - lastFrame.start) * 40)

\* C8 (amended): the pulse factor of a frame is
\* 0.965 + 0.035 * sin(t / 250) with t the timestamp the host passed to the
\* frame callback.
C8_PhaseFromTimestamp ==
  (lastFrame.ran /\ lastFrame.pulse) =>
    lastFrame.pf = 9650000 + 35 * Sin4(lastFrame.now * 40)

\* a pulsing frame of a loop that started after the time origin, whose
\* factor differs from the one the time since the loop's start would give
C8_Witness ==
  /\ lastFrame.ran /\ lastFrame.pulse
  /\ lastFrame.start > 0
  /\ lastFrame.pf # 9650000 + 35 * Sin4((lastFrame.now - lastFrame.start) * 40)

\* C9: Ornament: the rectangle a frame clears covers every backing pixel of
\* the canvas.
C9_ClearsWholeSurface ==
  lastFrame.ran =>
    /\ lastFrame.clearPlain
    /\ lastFrame.clearW >= lastFrame.canvasW * DprDen
    /\ lastFrame.clearH >= lastFrame.canvasH * DprDen

\* C10: Ornament: whenever a frame is scheduled, the context's transform is
\* the uniform scale by the device pixel ratio and its save stack is empty.
C10_TransformAtFrameStart ==
  oQueue # {} => oCtx = [k |-> dpr, ops |-> << >>, stack |-> << >>]

\* two frames drawn, then a resize event to a pixel ratio other than 1
C10_Witness ==
  /\ oQueue # {}
  /\ lastFrame.ran /\ prevFrame.ran
  /\ dpr # DprDen
  /\ oRendered.width # oCanvas.width

============================================================================
